---- MODULE Spec2Model ----
(***************************************************************************)
(* Model of app.py, the Streamlit market sizer: fetch_news, extract_text,  *)
(* call_ai, regex_metrics_from_title, parse_metrics and the "Analyze       *)
(* Market" run (steps 1-7).                                                *)
(*                                                                         *)
(* A Python str is a sequence of tokens (TLA+ strings); '' is <<>>.  A     *)
(* Python value that need not be a str (a JSON value) is a record          *)
(* [type, s, n]: its type name, its text when a str, and its number or     *)
(* size otherwise.                                                         *)
(***************************************************************************)
EXTENDS Integers, Sequences, FiniteSets, TLC

VARIABLES
    pc,            \* position of the run: start, extract, prompt, ai, parse, fallback, advice, done, stopped, raised
    feed,          \* what the RSS endpoint answers: [status, items]
    corpus,        \* which texts the inference backends can produce in this world
    Article,       \* TRUE when newspaper3k was imported, FALSE when Article = None
    hf_available,  \* module global hf_available (hf_api is set exactly when it is TRUE)
    api_key,       \* module global openai.api_key
    nItems,        \* number of <item> elements of the parsed feed
    df,            \* the DataFrame, one sequence per column
    trace,         \* the calls made so far, in order, each with the value it returned
    error,         \* the function whose exception ended the run, "" when none
    advice_text,   \* the text written under "Business Advice"
    aiCall,        \* the last call of call_ai when it is exercised on its own
    fetched,       \* the last call of fetch_news when it is exercised on its own
    matched        \* the last call of regex_metrics_from_title when it is exercised on its own

vars == <<pc, feed, corpus, Article, hf_available, api_key, nItems, df,
          trace, error, advice_text, aiCall, fetched, matched>>

runVars == <<pc, feed, corpus, Article, nItems, df, trace, error, advice_text>>

cfgVars == <<hf_available, api_key>>

(***************************************************************************)
(* Bounds                                                                  *)
(***************************************************************************)
TitleMax == 4

FeedMax == 6

RowMax == 1

FetchMax == 3

NegMax == 2

(***************************************************************************)
(* Program constants                                                       *)
(***************************************************************************)
DefaultMaxResults == 5

SnippetLimit == 1000

(***************************************************************************)
(* Sequences and Python values                                             *)
(***************************************************************************)
Min(a, b) == IF a <= b THEN a ELSE b

Max(a, b) == IF a >= b THEN a ELSE b

MaxOf(S) == CHOOSE x \in S : \A y \in S : y <= x

MinOf(S) == CHOOSE x \in S : \A y \in S : x <= y

SeqsUpTo(S, n) == UNION {[1..k -> S] : k \in 0..n}

\* a slice that keeps one element too many
PySliceOneMore(seq, stop) == SubSeq(seq, 1, Min(stop + 1, Len(seq)))

\* seq[:stop] of Python: a negative stop counts from the end
PySlice(seq, stop) ==
    IF stop >= 0 THEN SubSeq(seq, 1, Min(stop, Len(seq)))
    ELSE SubSeq(seq, 1, Max(Len(seq) + stop, 0))

Str(s) == [type |-> "str", s |-> s, n |-> 0]

None == [type |-> "NoneType", s |-> <<>>, n |-> 0]

PyInt(k) == [type |-> "int", s |-> <<>>, n |-> k]

PyList(size) == [type |-> "list", s |-> <<>>, n |-> size]

PyDict(size) == [type |-> "dict", s |-> <<>>, n |-> size]

\* bool(v) of Python, as "not v" and "if v" test it
Truthy(v) ==
    CASE v.type = "str" -> v.s # <<>>
      [] v.type = "NoneType" -> FALSE
      [] OTHER -> v.n # 0

WS == " "

\* str.strip(): leading and trailing whitespace removed
Strip(s) ==
    LET inner == {i \in 1..Len(s) : s[i] # WS}
    IN  IF inner = {} THEN <<>> ELSE SubSeq(s, MinOf(inner), MaxOf(inner))

RECURSIVE Join(_, _)
\* sep.join(parts) for str parts
Join(sep, parts) ==
    IF parts = <<>> THEN <<>>
    ELSE IF Len(parts) = 1 THEN parts[1]
    ELSE parts[1] \o sep \o Join(sep, Tail(parts))

RECURSIVE Keep(_, _)
\* [x for x in seq if x], on a column of Python values
Keep(seq, i) ==
    IF i > Len(seq) THEN <<>>
    ELSE IF Truthy(seq[i]) THEN <<seq[i]>> \o Keep(seq, i + 1)
    ELSE Keep(seq, i + 1)

(***************************************************************************)
(* regex_metrics_from_title                                                *)
(***************************************************************************)
Digits == {"1", "2"}

NumChars == Digits \cup {",", "."}

\* (billion|million) under re.IGNORECASE
UnitWords == {"billion", "MILLION"}

TitleTokens == {"$", "1", "2", ",", ".", WS, "billion", "MILLION", "x", "%"}

AllIn(t, a, b, S) == \A k \in a..b : t[k] \in S

\* [\d,\.]+\s*(billion|million) from index p: the index of the unit word, 0 when no match.
\* The run is taken greedily and given back one character at a time.
TamMatchFrom(t, p) ==
    LET ends(q) == {e \in (q + 1)..Len(t) : AllIn(t, q + 1, e - 1, {WS}) /\ t[e] \in UnitWords}
        Q == {q \in p..Len(t) : AllIn(t, p, q, NumChars) /\ ends(q) # {}}
    IN  IF Q = {} THEN 0 ELSE MaxOf(ends(MaxOf(Q)))

\* \$?[\d,\.]+\s*(billion|million) at index i: the optional "$" is tried first
TamMatchAt(t, i) ==
    IF t[i] = "$" /\ TamMatchFrom(t, i + 1) # 0 THEN TamMatchFrom(t, i + 1)
    ELSE TamMatchFrom(t, i)

\* (\d+(?:\.\d+)?)% at index i: the index of the "%", 0 when no match
CagrMatchAt(t, i) ==
    LET plain == {q \in i..(Len(t) - 1) : AllIn(t, i, q, Digits) /\ t[q + 1] = "%"}
        frac  == {r \in (i + 2)..(Len(t) - 1) :
                     \E q \in i..(r - 2) :
                        /\ AllIn(t, i, q, Digits)
                        /\ t[q + 1] = "."
                        /\ AllIn(t, q + 2, r, Digits)
                        /\ t[r + 1] = "%"}
    IN  IF frac # {} THEN MaxOf(frac) + 1
        ELSE IF plain # {} THEN MaxOf(plain) + 1
        ELSE 0

\* re.search(tam pattern, title).group(0): the leftmost match, '' when there is none
SearchTam(t) ==
    LET starts == {i \in 1..Len(t) : TamMatchAt(t, i) # 0}
    IN  IF starts = {} THEN <<>>
        ELSE SubSeq(t, MinOf(starts), TamMatchAt(t, MinOf(starts)))

\* re.search(cagr pattern, title).group(0)
SearchCagr(t) ==
    LET starts == {i \in 1..Len(t) : CagrMatchAt(t, i) # 0}
    IN  IF starts = {} THEN <<>>
        ELSE SubSeq(t, MinOf(starts), CagrMatchAt(t, MinOf(starts)))

regex_metrics_from_title(title) ==
    <<Str(SearchTam(title)), Str(SearchCagr(title))>>

(***************************************************************************)
(* parse_metrics: json.loads on a tokenised text, then d.get               *)
(***************************************************************************)
\* member names of a JSON object, as they are written and as they decode
JsonKeys == [k \in {"\"TAM\"", "\"CAGR\"", "\"note\""} |->
                CASE k = "\"TAM\"" -> "TAM" [] k = "\"CAGR\"" -> "CAGR" [] OTHER -> "note"]

\* JSON string literals and the str each decodes to
JsonStrings == [k \in {"\"\"", "\"$3 billion\"", "\"10%\""} |->
                   CASE k = "\"\"" -> <<>>
                     [] k = "\"$3 billion\"" -> <<"$3 billion">>
                     [] OTHER -> <<"10%">>]

JsonLiterals == {"null", "0", "5", "[]", "[1]", "{\"a\":1}"}

ValueTokens == JsonLiterals \cup DOMAIN JsonStrings

\* the Python value of a JSON value written as one token
JsonValue(tok) ==
    CASE tok = "null" -> None
      [] tok = "0" -> PyInt(0)
      [] tok = "5" -> PyInt(5)
      [] tok = "[]" -> PyList(0)
      [] tok = "[1]" -> PyList(1)
      [] tok = "{\"a\":1}" -> PyDict(1)
      [] OTHER -> Str(JsonStrings[tok])

NoItems == [k \in {} |-> None]

\* the members between "{" and "}": key ":" value, separated by ","
WellFormedMembers(inner) ==
    \/ Len(inner) = 0
    \/ /\ (Len(inner) + 1) % 4 = 0
       /\ \A m \in 0..(((Len(inner) + 1) \div 4) - 1) :
            /\ inner[4 * m + 1] \in DOMAIN JsonKeys
            /\ inner[4 * m + 2] = ":"
            /\ inner[4 * m + 3] \in ValueTokens
            /\ (4 * m + 4 <= Len(inner) => inner[4 * m + 4] = ",")

\* the dict of a well-formed member list: a repeated key keeps its last value
MembersDict(inner) ==
    LET ms == 0..(((Len(inner) + 1) \div 4) - 1)
        keys == {JsonKeys[inner[4 * m + 1]] : m \in ms}
        last(k) == MaxOf({m \in ms : JsonKeys[inner[4 * m + 1]] = k})
    IN  [k \in keys |-> JsonValue(inner[4 * last(k) + 3])]

\* json.loads(s): [ok, v, d], ok FALSE for a JSONDecodeError, d the items of a dict
json_loads(s) ==
    IF Len(s) = 1 /\ s[1] \in ValueTokens
    THEN [ok |-> TRUE, v |-> JsonValue(s[1]),
          d |-> IF s[1] = "{\"a\":1}" THEN [k \in {"a"} |-> PyInt(1)] ELSE NoItems]
    ELSE IF Len(s) >= 2 /\ s[1] = "{" /\ s[Len(s)] = "}"
            /\ WellFormedMembers(SubSeq(s, 2, Len(s) - 1))
    THEN LET d == MembersDict(SubSeq(s, 2, Len(s) - 1))
         IN  [ok |-> TRUE, v |-> PyDict(Cardinality(DOMAIN d)), d |-> d]
    ELSE [ok |-> FALSE, v |-> None, d |-> NoItems]

\* d.get(key, '')
DictGet(d, key) == IF key \in DOMAIN d THEN d[key] ELSE Str(<<>>)

\* the body of the try: json.loads raises on a text that is no JSON, and .get on a
\* value that is no dict
ParseBody(js) ==
    LET r == json_loads(js)
    IN  IF r.ok /\ r.v.type = "dict"
        THEN [exc |-> FALSE, pair |-> <<DictGet(r.d, "TAM"), DictGet(r.d, "CAGR")>>]
        ELSE [exc |-> TRUE, pair |-> <<Str(<<>>), Str(<<>>)>>]

\* a handler that does not cover what the body raises
Uncaught(r) == r

\* except: return '',''
BareExcept(r) == IF r.exc THEN [exc |-> FALSE, pair |-> <<Str(<<>>), Str(<<>>)>>] ELSE r

parse_metrics(js) == BareExcept(ParseBody(js))

\* the text of a JSON object with the given TAM and CAGR values ("missing": no such key)
ObjText(tamTok, cagrTok) ==
    LET ms == (IF tamTok = "missing" THEN <<>> ELSE << <<"\"TAM\"", ":", tamTok>> >>)
              \o (IF cagrTok = "missing" THEN <<>> ELSE << <<"\"CAGR\"", ":", cagrTok>> >>)
    IN  <<"{">> \o Join(<<",">>, ms) \o <<"}">>

(***************************************************************************)
(* call_ai                                                                 *)
(***************************************************************************)
\* what hf_api(prompt, raw_response=True) can do: raise, answer a body that is no
\* JSON, a JSON list, a dict without 'generated_text', or a dict with it
HFOutcomes(texts) ==
    {[kind |-> k, val |-> None] : k \in {"raise", "badjson", "list", "nokey"}}
    \cup {[kind |-> "dict", val |-> v] : v \in {None} \cup {Str(t) : t \in texts}}

\* what openai.ChatCompletion.create can do: raise, or answer a message content
OAOutcomes(texts) ==
    {[kind |-> "raise", val |-> None]}
    \cup {[kind |-> "content", val |-> v] : v \in {None} \cup {Str(t) : t \in texts}}

\* the first try without the .strip() of the generated text
HFTierUnstripped(o) ==
    IF o.kind \in {"raise", "badjson", "list"} THEN [exc |-> TRUE, txt |-> <<>>]
    ELSE IF o.kind = "nokey" THEN [exc |-> FALSE, txt |-> <<>>]
    ELSE IF o.val.type # "str" THEN [exc |-> TRUE, txt |-> <<>>]
    ELSE [exc |-> FALSE, txt |-> o.val.s]

\* the body of the first try: exc when a statement of it raises, txt otherwise
HFTier(o) ==
    IF o.kind \in {"raise", "badjson", "list"} THEN [exc |-> TRUE, txt |-> <<>>]
    ELSE IF o.kind = "nokey" THEN [exc |-> FALSE, txt |-> Strip(<<>>)]
    ELSE IF o.val.type # "str" THEN [exc |-> TRUE, txt |-> <<>>]
    ELSE [exc |-> FALSE, txt |-> Strip(o.val.s)]

\* the body of the second try
OATier(o) ==
    IF o.kind = "raise" THEN [exc |-> TRUE, txt |-> <<>>]
    ELSE IF o.val.type # "str" THEN [exc |-> TRUE, txt |-> <<>>]
    ELSE [exc |-> FALSE, txt |-> Strip(o.val.s)]

\* a try with no handler: the exception leaves the function
NoHandler(r) == r

\* except Exception as e: print(...), and fall out of the try with nothing
ExceptException(r) == IF r.exc THEN [exc |-> FALSE, txt |-> <<>>] ELSE r

\* call_ai(prompt) when the tiers behave as hf and oa: the value returned, the
\* tiers invoked in order, and whether an exception left the function
call_ai(hf, oa) ==
    LET useHF == hf_available
        t1 == IF useHF THEN ExceptException(HFTier(hf)) ELSE [exc |-> FALSE, txt |-> <<>>]
        inv1 == IF useHF THEN <<"hf">> ELSE <<>>
        useOA == api_key # ""
        t2 == IF useOA THEN ExceptException(OATier(oa)) ELSE [exc |-> FALSE, txt |-> <<>>]
        inv2 == IF useOA THEN Append(inv1, "openai") ELSE inv1
    IN  IF t1.exc THEN [ret |-> <<>>, invoked |-> inv1, raised |-> TRUE]
        ELSE IF t1.txt # <<>> THEN [ret |-> t1.txt, invoked |-> inv1, raised |-> FALSE]
        ELSE IF t2.exc THEN [ret |-> <<>>, invoked |-> inv2, raised |-> TRUE]
        ELSE IF t2.txt # <<>> THEN [ret |-> t2.txt, invoked |-> inv2, raised |-> FALSE]
        ELSE [ret |-> <<>>, invoked |-> inv2, raised |-> FALSE]

(***************************************************************************)
(* extract_text                                                            *)
(***************************************************************************)
PageTexts == {<<>>, <<WS>>, <<"body">>}

\* Article(url).download(); parse(): raises, or leaves art.text.  No page is
\* downloaded from the empty URL.
PrimaryOutcomes(url) ==
    {[kind |-> "raise", text |-> <<>>]}
    \cup (IF url = <<>> THEN {} ELSE {[kind |-> "text", text |-> t] : t \in PageTexts})

\* requests.get(url, timeout=10): raises (connection error, timeout, and always
\* MissingSchema for the empty URL), or answers a page with these <p> texts
SecondaryOutcomes(url) ==
    {[kind |-> "raise", paras |-> <<>>]}
    \cup (IF url = <<>> THEN {}
          ELSE {[kind |-> "html", paras |-> ps] : ps \in {<<>>, << <<"body">> >>}})

extract_text(po, so) ==
    IF Article /\ po.kind = "text" /\ Strip(po.text) # <<>>
    THEN [exc |-> FALSE, text |-> po.text]
    ELSE IF so.kind = "raise" THEN [exc |-> TRUE, text |-> <<>>]
    ELSE [exc |-> FALSE, text |-> Join(<<WS>>, so.paras)]

(***************************************************************************)
(* fetch_news                                                              *)
(***************************************************************************)
\* an <item>: its title and link children, each <<>> when the tag is missing
\* and <<text>> when it is there
RowOfItem(it) ==
    [title |-> IF it.title # <<>> THEN it.title[1] ELSE <<>>,
     link  |-> IF it.link # <<>> THEN it.link[1] ELSE <<>>]

\* fetch_news(topic, max_results) when the endpoint answers resp
fetch_news(resp, max_results) ==
    IF resp.status # "ok" THEN [exc |-> TRUE, rows |-> <<>>]
    ELSE LET items == PySlice(resp.items, max_results)
         IN  [exc |-> FALSE, rows |-> [i \in 1..Len(items) |-> RowOfItem(items[i])]]

(***************************************************************************)
(* The texts of a world                                                    *)
(***************************************************************************)
Link1 == <<"https://example.com/a">>

\* "x $1.2 billion 1%"
Title1 == <<"x", WS, "$", "1", ".", "2", WS, "billion", WS, "1", "%">>

Title0 == <<"x", WS, "x">>

AdviceReplies == {<<>>, <<WS>>, <<"Enter the market.">>}

LeanItems ==
    {[title |-> <<Title1>>, link |-> <<Link1>>],
     [title |-> <<>>, link |-> <<Link1>>],
     [title |-> <<Title1>>, link |-> <<>>]}

LeanReplies == {<<>>, ObjText("\"$3 billion\"", "missing")}

RichItems ==
    {[title |-> <<t>>, link |-> l] : t \in {Title0, Title1}, l \in {<<>>, <<Link1>>}}

RichTamTokens == {"missing", "null", "\"\"", "\"$3 billion\"", "0", "5", "[1]", "{\"a\":1}"}

RichCagrTokens == {"missing", "null", "\"\"", "\"10%\"", "5"}

ObjectTexts == {ObjText(tv, cv) : tv \in RichTamTokens, cv \in RichCagrTokens}

NonObjectTexts == {<<>>, <<"I don't know">>, <<"[1]">>, <<"5">>, <<"null">>, <<"\"10%\"">>,
                   <<"{", "\"TAM\"", "}">>}

RichReplies == ObjectTexts \cup NonObjectTexts

GatewayTexts == {<<>>, <<WS>>, <<"a">>, <<WS, "a", WS>>, <<"b">>}

\* the texts a backend can answer to a prompt of the given kind
Replies(kind) ==
    CASE corpus = "gateway" -> GatewayTexts
      [] corpus = "none" -> {}
      [] kind = "advice" -> AdviceReplies
      [] corpus = "lean" -> LeanReplies
      [] OTHER -> RichReplies

(***************************************************************************)
(* The "Analyze Market" run                                                *)
(***************************************************************************)
Topic == <<"Smartphones">>

EmptyFrame ==
    [title |-> <<>>, link |-> <<>>, snippet |-> <<>>, prompt |-> <<>>,
     raw |-> <<>>, TAM |-> <<>>, CAGR |-> <<>>]

NRows == Len(df.title)

NoResponse == [status |-> "none", items |-> <<>>]

\* step 3: the prompt of one row
MetricsPrompt(title, snippet) ==
    <<"Headline: ">> \o title \o <<"\nSnippet: ">> \o snippet
    \o <<"\n\nExtract the Total Addressable Market (TAM) and CAGR as JSON with keys 'TAM','CAGR'.">>

PromptKind(prompt) == IF prompt[1] = "Headline: " THEN "metrics" ELSE "advice"

\* ", ".join(values): a TypeError when a value is not a str
JoinValues(values) ==
    IF \E i \in 1..Len(values) : values[i].type # "str"
    THEN [exc |-> TRUE, s |-> <<>>]
    ELSE [exc |-> FALSE, s |-> Join(<<", ">>, [i \in 1..Len(values) |-> values[i].s])]

\* (s or "N/A")
OrNA(s) == IF s # <<>> THEN s ELSE <<"N/A">>

\* step 7: "\n\n".join of "- title: snippet"
Context(frame) ==
    Join(<<"\n\n">>,
         [i \in 1..Len(frame.title) |-> <<"- ">> \o frame.title[i] \o <<": ">> \o frame.snippet[i]])

AdvicePrompt(frame, tams, cagrs) ==
    <<"You are a senior business consultant advising on the '">> \o Topic \o <<"' market.\n">>
    \o <<"Using the context and metrics below, provide actionable strategic advice, including opportunities, risks, and next steps.\n\n">>
    \o <<"Context:\n">> \o Context(frame) \o <<"\n\n">>
    \o <<"Metrics: TAM=">> \o OrNA(tams) \o <<"; CAGR=">> \o OrNA(cagrs)

MetricsAdvice(tams, cagrs) ==
    <<"Based on the metrics, the market size is ">> \o OrNA(tams)
    \o <<" with growth rates of ">> \o OrNA(cagrs)
    \o <<". This indicates a significant market opportunity. ">>
    \o <<"Consider validating demand with customer interviews, assessing key competitors, ">>
    \o <<"and planning a go-to-market strategy that addresses pain points and leverages growth trends.">>

NoMetricsAdvice ==
    <<"We couldn't extract clear market metrics. ",
      "Consider researching industry reports or public data to determine TAM and CAGR, ",
      "then revisit this tool for insights.">>

\* the templates chosen by "tams and cagrs"
FallbackAdviceBoth(frame) ==
    LET tams == Keep(frame.TAM, 1)
        cagrs == Keep(frame.CAGR, 1)
    IN  IF tams # <<>> /\ cagrs # <<>>
        THEN MetricsAdvice(JoinValues(tams).s, JoinValues(cagrs).s)
        ELSE NoMetricsAdvice

\* the deterministic advice of lines 158-173
FallbackAdvice(frame) ==
    LET tams == Keep(frame.TAM, 1)
        cagrs == Keep(frame.CAGR, 1)
    IN  IF tams # <<>> \/ cagrs # <<>>
        THEN MetricsAdvice(JoinValues(tams).s, JoinValues(cagrs).s)
        ELSE NoMetricsAdvice

\* a fallback that fills each falsy field on its own
FallbackRowFieldwise(title, tam, cagr) ==
    <<IF Truthy(tam) THEN tam ELSE regex_metrics_from_title(title)[1],
      IF Truthy(cagr) THEN cagr ELSE regex_metrics_from_title(title)[2]>>

\* step 6, one row: the regex on the title when both parsed fields are falsy
FallbackRow(title, tam, cagr) ==
    IF ~Truthy(tam) /\ ~Truthy(cagr) THEN regex_metrics_from_title(title)
    ELSE <<tam, cagr>>

\* step 1: fetch_news(topic), st.error and st.stop on an empty frame
FetchNewsStep ==
    /\ pc = "start"
    /\ LET r == fetch_news(feed, DefaultMaxResults)
       IN  IF r.exc
           THEN /\ pc' = "raised"
                /\ error' = "fetch_news"
                /\ UNCHANGED <<df, nItems>>
           ELSE /\ df' = [df EXCEPT !.title = [i \in 1..Len(r.rows) |-> r.rows[i].title],
                                    !.link = [i \in 1..Len(r.rows) |-> r.rows[i].link]]
                /\ nItems' = Len(feed.items)
                /\ pc' = IF r.rows = <<>> THEN "stopped" ELSE "extract"
                /\ UNCHANGED error
    /\ feed' = NoResponse
    /\ UNCHANGED <<corpus, Article, cfgVars, trace, advice_text, aiCall, fetched, matched>>

\* step 2, one row of df['link'].apply: extract_text(u)[:1000]
ExtractStep ==
    /\ pc = "extract"
    /\ LET i == Len(df.snippet) + 1
       IN  \E r \in {extract_text(po, so) : po \in PrimaryOutcomes(df.link[i]),
                                                so \in SecondaryOutcomes(df.link[i])} :
                 /\ trace' = Append(trace, [op |-> "extract_text", row |-> i, ret |-> r.text])
                 /\ IF r.exc
                    THEN /\ pc' = "raised"
                         /\ error' = "extract_text"
                         /\ UNCHANGED df
                    ELSE /\ df' = [df EXCEPT !.snippet = Append(@, PySlice(r.text, SnippetLimit))]
                         /\ pc' = IF i = NRows THEN "prompt" ELSE "extract"
                         /\ UNCHANGED error
    /\ UNCHANGED <<feed, corpus, Article, cfgVars, nItems, advice_text, aiCall, fetched, matched>>

\* step 3: df['prompt']
PromptStep ==
    /\ pc = "prompt"
    /\ df' = [df EXCEPT !.prompt = [i \in 1..NRows |-> MetricsPrompt(df.title[i], df.snippet[i])]]
    /\ pc' = "ai"
    /\ UNCHANGED <<feed, corpus, Article, cfgVars, nItems, trace, error, advice_text,
                   aiCall, fetched, matched>>

\* step 4, one row of df['prompt'].apply(call_ai)
CallAiStep ==
    /\ pc = "ai"
    /\ LET i == Len(df.raw) + 1
           texts == Replies(PromptKind(df.prompt[i]))
       IN  \E r \in {call_ai(hf, oa) : hf \in HFOutcomes(texts), oa \in OAOutcomes(texts)} :
                 /\ trace' = Append(trace, [op |-> "call_ai", row |-> i, ret |-> r.ret])
                 /\ IF r.raised
                    THEN /\ pc' = "raised"
                         /\ error' = "call_ai"
                         /\ UNCHANGED df
                    ELSE /\ df' = [df EXCEPT !.raw = Append(@, r.ret)]
                         /\ pc' = IF i = NRows THEN "parse" ELSE "ai"
                         /\ UNCHANGED error
    /\ UNCHANGED <<feed, corpus, Article, cfgVars, nItems, advice_text, aiCall, fetched, matched>>

\* step 5: df[['TAM','CAGR']] from parse_metrics of every raw
ParseStep ==
    /\ pc = "parse"
    /\ IF \E i \in 1..NRows : parse_metrics(df.raw[i]).exc
       THEN /\ pc' = "raised"
            /\ error' = "parse_metrics"
            /\ UNCHANGED df
       ELSE /\ df' = [df EXCEPT !.TAM = [i \in 1..NRows |-> parse_metrics(df.raw[i]).pair[1]],
                                !.CAGR = [i \in 1..NRows |-> parse_metrics(df.raw[i]).pair[2]]]
            /\ pc' = "fallback"
            /\ UNCHANGED error
    /\ UNCHANGED <<feed, corpus, Article, cfgVars, nItems, trace, advice_text,
                   aiCall, fetched, matched>>

\* step 6: the regex fallback, row by row
FallbackStep ==
    /\ pc = "fallback"
    /\ df' = [df EXCEPT
                !.TAM = [i \in 1..NRows |-> FallbackRow(df.title[i], df.TAM[i], df.CAGR[i])[1]],
                !.CAGR = [i \in 1..NRows |-> FallbackRow(df.title[i], df.TAM[i], df.CAGR[i])[2]]]
    /\ pc' = "advice"
    /\ UNCHANGED <<feed, corpus, Article, cfgVars, nItems, trace, error, advice_text,
                   aiCall, fetched, matched>>

\* step 7: the advice prompt (its joins can raise), call_ai, the templates
AdviceStep ==
    /\ pc = "advice"
    /\ LET tams == JoinValues(Keep(df.TAM, 1))
           cagrs == JoinValues(Keep(df.CAGR, 1))
       IN  IF tams.exc \/ cagrs.exc
           THEN /\ pc' = "raised"
                /\ error' = "join"
                /\ UNCHANGED <<trace, advice_text>>
           ELSE LET prompt == AdvicePrompt(df, tams.s, cagrs.s)
                    texts == Replies(PromptKind(prompt))
                IN  \E r \in {call_ai(hf, oa) : hf \in HFOutcomes(texts), oa \in OAOutcomes(texts)} :
                          /\ trace' = Append(trace, [op |-> "call_ai", row |-> 0, ret |-> r.ret])
                          /\ IF r.raised
                             THEN /\ pc' = "raised"
                                  /\ error' = "call_ai"
                                  /\ UNCHANGED advice_text
                             ELSE /\ advice_text' = IF r.ret # <<>> THEN r.ret
                                                    ELSE FallbackAdvice(df)
                                  /\ pc' = "done"
                                  /\ UNCHANGED error
    /\ UNCHANGED <<feed, corpus, Article, cfgVars, nItems, df, aiCall, fetched, matched>>

Next ==
    \/ FetchNewsStep
    \/ ExtractStep
    \/ PromptStep
    \/ CallAiStep
    \/ ParseStep
    \/ FallbackStep
    \/ AdviceStep

(***************************************************************************)
(* Initial states and specifications                                       *)
(***************************************************************************)
Responses(items, n) ==
    {[status |-> st, items |-> <<>>] : st \in {"conn_error", "http_error"}}
    \cup {[status |-> "ok", items |-> its] : its \in SeqsUpTo(items, n)}

Parked ==
    /\ aiCall = [done |-> FALSE]
    /\ fetched = [done |-> FALSE]
    /\ matched = [done |-> FALSE]

RunStart ==
    /\ pc = "start"
    /\ hf_available = TRUE
    /\ api_key = "sk_your_openai_key_here"
    /\ nItems = 0
    /\ df = EmptyFrame
    /\ trace = <<>>
    /\ error = ""
    /\ advice_text = <<>>
    /\ Parked

\* runs over feeds longer than the default max_results, few kinds of rows
Init ==
    /\ RunStart
    /\ feed \in Responses(LeanItems, FeedMax)
    /\ corpus = "lean"
    /\ Article = TRUE

Spec == Init /\ [][Next]_vars

\* runs over short feeds, every kind of reply
InitRow ==
    /\ RunStart
    /\ feed \in Responses(RichItems, RowMax)
    /\ corpus = "rich"
    /\ Article \in BOOLEAN

SpecRow == InitRow /\ [][Next]_vars

(***************************************************************************)
(* call_ai on its own                                                      *)
(***************************************************************************)
SamplePrompts == {MetricsPrompt(Title1, <<"body">>), AdvicePrompt(EmptyFrame, <<>>, <<>>)}

RunParked ==
    /\ pc = "off"
    /\ Article = TRUE
    /\ nItems = 0
    /\ df = EmptyFrame
    /\ trace = <<>>
    /\ error = ""
    /\ advice_text = <<>>

\* every configuration the module can start in, no call made yet
InitAI ==
    /\ RunParked
    /\ feed = NoResponse
    /\ corpus = "gateway"
    /\ hf_available \in BOOLEAN
    /\ api_key \in {"", "sk_your_openai_key_here"}
    /\ aiCall = [done |-> FALSE]
    /\ fetched = [done |-> FALSE]
    /\ matched = [done |-> FALSE]

CallAi ==
    /\ \E prompt \in SamplePrompts :
         \E hf \in HFOutcomes(Replies(PromptKind(prompt))),
            oa \in OAOutcomes(Replies(PromptKind(prompt))) :
              aiCall' = [done |-> TRUE, prompt |-> prompt, hf |-> hf, oa |-> oa,
                         result |-> call_ai(hf, oa)]
    /\ UNCHANGED <<runVars, cfgVars, fetched, matched>>

NextAI == CallAi

SpecAI == InitAI /\ [][NextAI]_vars

(***************************************************************************)
(* fetch_news on its own                                                   *)
(***************************************************************************)
FetchItems ==
    {[title |-> t, link |-> l] : t \in {<<>>, << <<>> >>, <<Title0>>}, l \in {<<>>, <<Link1>>}}

MaxResultsRange == (0 - NegMax)..(FetchMax + 1)

InitFetch ==
    /\ RunParked
    /\ feed \in Responses(FetchItems, FetchMax)
    /\ corpus = "none"
    /\ hf_available = TRUE
    /\ api_key = "sk_your_openai_key_here"
    /\ aiCall = [done |-> FALSE]
    /\ fetched = [done |-> FALSE]
    /\ matched = [done |-> FALSE]

FetchNews ==
    /\ \E m \in MaxResultsRange :
         fetched' = [done |-> TRUE, max_results |-> m, result |-> fetch_news(feed, m)]
    /\ UNCHANGED <<runVars, cfgVars, aiCall, matched>>

NextFetch == FetchNews

SpecFetch == InitFetch /\ [][NextFetch]_vars

(***************************************************************************)
(* regex_metrics_from_title on its own                                     *)
(***************************************************************************)
InitRegex ==
    /\ RunParked
    /\ feed = NoResponse
    /\ corpus = "none"
    /\ hf_available = TRUE
    /\ api_key = "sk_your_openai_key_here"
    /\ aiCall = [done |-> FALSE]
    /\ fetched = [done |-> FALSE]
    /\ \E t \in SeqsUpTo(TitleTokens, TitleMax) :
         matched = [done |-> FALSE, title |-> t, tam |-> <<>>, cagr |-> <<>>]

RegexMetrics ==
    /\ ~matched.done
    /\ matched' = [matched EXCEPT !.done = TRUE,
                                  !.tam = regex_metrics_from_title(matched.title)[1].s,
                                  !.cagr = regex_metrics_from_title(matched.title)[2].s]
    /\ UNCHANGED <<runVars, cfgVars, aiCall, fetched>>

NextRegex == RegexMetrics

SpecRegex == InitRegex /\ [][NextRegex]_vars

(***************************************************************************)
(* Properties of call_ai (SpecAI)                                          *)
(***************************************************************************)
\* the tier answered a str with a character that is not whitespace
AnsweredText(o) ==
    /\ o.kind \in {"dict", "content"}
    /\ o.val.type = "str"
    /\ \E i \in 1..Len(o.val.s) : o.val.s[i] # WS

HFProduced == hf_available /\ AnsweredText(aiCall.hf)

OAProduced == api_key # "" /\ AnsweredText(aiCall.oa)

\* C1: call_ai never raises, whatever each tier does (unavailable, raises, answers
\* nothing, answers text), and it returns '' whenever neither tier produced
\* non-empty text.
C1_CallAiNeverRaises ==
    aiCall.done =>
        /\ ~aiCall.result.raised
        /\ aiCall.result.ret \in Seq(STRING)
        /\ (~HFProduced /\ ~OAProduced) => aiCall.result.ret = <<>>

C1_Witness ==
    /\ aiCall.done
    /\ hf_available
    /\ api_key # ""
    /\ aiCall.hf.kind = "badjson"
    /\ aiCall.oa.kind = "raise"
    /\ aiCall.result.ret = <<>>
    /\ aiCall.result.invoked = <<"hf", "openai">>

\* C2 as stated: when the primary tier is available and yields non-empty generated
\* text, that text is returned and the secondary tier is never invoked; the
\* secondary tier is invoked only after the primary was unavailable, raised or
\* yielded empty text; the result is the output of the first tier that produced
\* non-empty text.
C2_Original ==
    aiCall.done =>
        LET hfText == aiCall.hf.kind = "dict" /\ aiCall.hf.val.type = "str"
                      /\ aiCall.hf.val.s # <<>>
        IN  /\ (hf_available /\ hfText) =>
                  /\ aiCall.result.ret = aiCall.hf.val.s
                  /\ aiCall.result.invoked = <<"hf">>
            /\ (\E i \in 1..Len(aiCall.result.invoked) : aiCall.result.invoked[i] = "openai")
                  => ~(hf_available /\ hfText)

\* C2 amended: "non-empty" is judged, and the text is returned, after .strip().  The
\* primary tier's stripped text is returned with the secondary tier not invoked;
\* the secondary tier is invoked only when it is configured and the primary was
\* unavailable, raised or yielded text that is empty once stripped; the result is
\* the stripped output of the first tier that produced such text.
C2_FixedPriorityOrder ==
    aiCall.done =>
        LET inv == aiCall.result.invoked
        IN  /\ HFProduced =>
                  /\ aiCall.result.ret = Strip(aiCall.hf.val.s)
                  /\ inv = <<"hf">>
            /\ (\E i \in 1..Len(inv) : inv[i] = "openai") <=> (api_key # "" /\ ~HFProduced)
            /\ (\E i \in 1..Len(inv) : inv[i] = "hf") <=> hf_available
            /\ (Len(inv) = 2 => inv = <<"hf", "openai">>)
            /\ (~HFProduced /\ OAProduced) => aiCall.result.ret = Strip(aiCall.oa.val.s)

C2_Witness ==
    /\ aiCall.done
    /\ hf_available
    /\ api_key # ""
    /\ aiCall.hf.val = Str(<<WS, "a", WS>>)
    /\ aiCall.hf.kind = "dict"
    /\ aiCall.oa.val = Str(<<"b">>)
    /\ aiCall.result.ret = <<"a">>
    /\ aiCall.result.invoked = <<"hf">>

(***************************************************************************)
(* Properties of fetch_news (SpecFetch)                                    *)
(***************************************************************************)
\* the rows the claim expects of the first k items: a missing tag gives ''
FirstRows(items, k) ==
    [i \in 1..k |-> [title |-> IF items[i].title = <<>> THEN <<>> ELSE items[i].title[1],
                     link  |-> IF items[i].link = <<>> THEN <<>> ELSE items[i].link[1]]]

\* C6 as stated: on a successful response with n items, fetch_news returns exactly
\* the first min(n, max_results) items in feed order, for every integer max_results,
\* never more than max_results entries, a missing title or link being ''.  (The
\* first min(n, max_results) items are no items when max_results is negative.)
C6_Original ==
    (fetched.done /\ ~fetched.result.exc) =>
        fetched.result.rows = FirstRows(feed.items, Min(Len(feed.items), fetched.max_results))

\* C6 amended: the same, for every max_results >= 0.
C6_FirstMaxResults ==
    (fetched.done /\ ~fetched.result.exc /\ fetched.max_results >= 0) =>
        /\ fetched.result.rows = FirstRows(feed.items, Min(Len(feed.items), fetched.max_results))
        /\ Len(fetched.result.rows) <= fetched.max_results

C6_Witness ==
    /\ fetched.done
    /\ ~fetched.result.exc
    /\ fetched.max_results = 2
    /\ Len(feed.items) = 3
    /\ feed.items[1].title = <<>>
    /\ feed.items[2].link = <<>>
    /\ feed.items[2].title = <<Title0>>
    /\ fetched.result.rows = <<[title |-> <<>>, link |-> Link1], [title |-> Title0, link |-> <<>>]>>

(***************************************************************************)
(* Properties of regex_metrics_from_title (SpecRegex)                      *)
(***************************************************************************)
\* t[i..e] is a TAM expression: optional "$", a number (digits, "," and "." with at
\* least one digit), optional whitespace, then billion or million
IsTamExpr(t, i, e) ==
    /\ e \in i..Len(t)
    /\ t[e] \in UnitWords
    /\ \E p \in {i, i + 1} :
         /\ (p = i + 1) => t[i] = "$"
         /\ \E q \in p..(e - 1) :
              /\ AllIn(t, p, q, NumChars)
              /\ \E k \in p..q : t[k] \in Digits
              /\ AllIn(t, q + 1, e - 1, {WS})

TamExprStarts(t) == {i \in 1..Len(t) : \E e \in i..Len(t) : IsTamExpr(t, i, e)}

FirstTamExpr(t) ==
    LET i == MinOf(TamExprStarts(t))
    IN  SubSeq(t, i, CHOOSE e \in i..Len(t) : IsTamExpr(t, i, e))

\* C8: for every title that contains a TAM expression, the TAM returned is the
\* first such expression of the title, verbatim, and never a match without a digit.
C8_TamIsFirstExpression ==
    (matched.done /\ TamExprStarts(matched.title) # {}) =>
        /\ matched.tam = FirstTamExpr(matched.title)
        /\ \E k \in 1..Len(matched.tam) : matched.tam[k] \in Digits

(***************************************************************************)
(* Properties of the run's metric extraction (SpecRow)                     *)
(***************************************************************************)
\* steps 5 and 6 are over: the TAM and CAGR columns are final
MetricsFinal == pc \in {"advice", "done"} \/ (pc = "raised" /\ error = "join")

\* the Python value written as a JSON token, '' for a key that is not there
TokenValue(tok) == IF tok = "missing" THEN Str(<<>>) ELSE JsonValue(tok)

\* the pair a structured parse of raw yields: the object's TAM and CAGR, ('', '')
\* for any text that is not a JSON object
StructuredPair(raw) ==
    IF raw \in ObjectTexts
    THEN LET tc == CHOOSE tc \in RichTamTokens \X RichCagrTokens : raw = ObjText(tc[1], tc[2])
         IN  <<TokenValue(tc[1]), TokenValue(tc[2])>>
    ELSE <<Str(<<>>), Str(<<>>)>>

C9_FieldsAreStrings ==
    /\ error # "join"
    /\ MetricsFinal =>
        \A i \in 1..NRows : df.TAM[i].type = "str" /\ df.CAGR[i].type = "str"

(***************************************************************************)
(* Properties of the whole run (Spec)                                      *)
(***************************************************************************)
Ended == pc \in {"done", "stopped", "raised"}

\* C5: no content-extraction failure aborts a run: extract_text returns a str
\* instead of raising, a run whose feed fetch succeeded with n items ends with
\* min(n, max_results) rows, and the feed fetch is the only step whose error
\* propagates.
C5_ExtractionNeverAborts ==
    /\ pc = "raised" => error = "fetch_news"
    /\ (Ended /\ error # "fetch_news" /\ nItems >= 1) =>
          /\ pc = "done"
          /\ NRows = Min(nItems, DefaultMaxResults)
          /\ Len(df.snippet) = NRows

\* the non-empty values of a column, in row order, comma-joined, "N/A" when none
Listed(col) ==
    LET idx == {i \in 1..Len(col) : col[i].type = "str" /\ col[i].s # <<>>}
        F[k \in 0..Len(col)] ==
            IF k = 0 THEN <<>>
            ELSE IF k \notin idx THEN F[k - 1]
            ELSE IF F[k - 1] = <<>> THEN col[k].s
            ELSE F[k - 1] \o <<", ">> \o col[k].s
    IN  IF idx = {} THEN <<"N/A">> ELSE F[Len(col)]

\* C7: the advice shown is never '': it is the advice call's text when that is
\* non-empty; the fixed "couldn't extract" template when the call returned '' and
\* no row has a TAM or CAGR; and otherwise the metrics template listing the
\* non-empty TAMs and the non-empty CAGRs in row order, "N/A" for an empty list.
C7_AdviceNeverEmpty ==
    pc = "done" =>
        LET ai == trace[Len(trace)].ret
            none == \A i \in 1..NRows : ~Truthy(df.TAM[i]) /\ ~Truthy(df.CAGR[i])
        IN  /\ advice_text # <<>>
            /\ ai # <<>> => advice_text = ai
            /\ (ai = <<>> /\ none) => advice_text =
                  <<"We couldn't extract clear market metrics. ",
                    "Consider researching industry reports or public data to determine TAM and CAGR, ",
                    "then revisit this tool for insights.">>
            /\ (ai = <<>> /\ ~none) => advice_text =
                  <<"Based on the metrics, the market size is ">> \o Listed(df.TAM)
                  \o <<" with growth rates of ">> \o Listed(df.CAGR)
                  \o <<". This indicates a significant market opportunity. ",
                       "Consider validating demand with customer interviews, assessing key competitors, ",
                       "and planning a go-to-market strategy that addresses pain points and leverages growth trends.">>

C7_Witness ==
    /\ pc = "done"
    /\ NRows = 3
    /\ trace[Len(trace)].ret = <<>>
    /\ df.TAM[1] = Str(<<>>) /\ df.CAGR[1] = Str(<<>>)
    /\ df.TAM[2] = Str(<<"$3 billion">>) /\ df.CAGR[2] = Str(<<>>)
    /\ df.TAM[3] = Str(<<"$", "1", ".", "2", WS, "billion">>)
    /\ advice_text[2] = "$3 billion"
    /\ advice_text[3] = ", "
    /\ advice_text[Len(advice_text) - 3] = "%"

\* the calls of a run over n rows: every extraction, then call_ai once per row in
\* feed order, then once for the advice
ExpectedCalls(n) ==
    [k \in 1..(2 * n + 1) |->
        IF k <= n THEN <<"extract_text", k>>
        ELSE IF k <= 2 * n THEN <<"call_ai", k - n>>
        ELSE <<"call_ai", 0>>]

Calls == [k \in 1..Len(trace) |-> <<trace[k].op, trace[k].row>>]

\* C10: the steps of every run come in a fixed order with a fixed number of call_ai
\* invocations: none, and no extraction, when the feed fetch raises or returns no
\* item; otherwise all N extractions, then call_ai once per row in feed order, then
\* once more for the advice, N + 1 invocations in all.
C10_FixedOrderAndCount ==
    /\ (pc = "stopped" \/ error = "fetch_news") => trace = <<>>
    /\ Len(trace) <= 2 * NRows + 1
    /\ Calls = SubSeq(ExpectedCalls(NRows), 1, Len(trace))
    /\ (Ended /\ NRows >= 1) => Calls = ExpectedCalls(NRows)

====
